---- MODULE Spec2Model ----
(***************************************************************************)
(* TabDo: the new-tab to-do list.  A model of src/src/main.ts              *)
(* (StorageManager, TaskOperations, ResetManager, TabDoApp and the event   *)
(* handlers of UIManager) and of the types and constants of types.ts       *)
(* (src/unnamed/part_000).                                                 *)
(*                                                                         *)
(* JavaScript objects are shared by reference.  A task list is a sequence  *)
(* of task records; the extra field obj of a record is the identity of the *)
(* object the array slot refers to, kept in the canonical form "index of   *)
(* the first slot that refers to the same object".  Two slots with equal   *)
(* obj are one object; an assignment through one is seen through both.     *)
(*                                                                         *)
(* A string is a sequence of characters; " " is white space.               *)
(***************************************************************************)
EXTENDS Integers, Sequences, FiniteSets, TLC

VARIABLES
    state,          \* TabDoApp.state: the in-memory IAppState
    store,          \* browser.storage.local[STORAGE_KEY]: <<>> (absent) or <<value>>
    debounceTimer,  \* the pending setTimeout callbacks of StorageManager.save, oldest first;
                    \* StorageManager.debounceTimer is the handle of the last one
    pc,             \* where the page is: closed, load, check, reset1, reset2, theme, running, failed
    dom,            \* the rendered lists (UIManager.renderList), as captured at render time
    now,            \* Date.now(), in clock ticks
    nextId,         \* the number of ids generateId has produced
    left,           \* the number of user events (calls) the run may still make
    loadedAt,       \* Date.now() when types.ts was evaluated (DEFAULT_APP_STATE.lastReset)
    dataTheme,      \* document.documentElement data-theme: "none" until applyTheme sets it
    prefersDark,    \* matchMedia('(prefers-color-scheme: dark)').matches
    timeUpdateInterval, \* ClockManager.timeUpdateInterval: "null", or "set" (the clock runs)
    resets,         \* history: the local day resetDailyList last ran on, and how often that day
    ev              \* history: the last call, its arguments and how it ended

vars == <<state, store, debounceTimer, pc, dom, now, nextId, left, loadedAt,
          dataTheme, prefersDark, timeUpdateInterval, resets, ev>>

----------------------------------------------------------------------------
(* Bounds of the model *)

\* the user events of a run that starts from a new installation
MaxEvents == 3
\* the user events (calls) of a run that starts from a seeded state
MaxOps == 1
\* the longest seeded task list
MaxLen == 3
\* the clock stops advancing at MaxTime ticks
MaxTime == 2
\* a (short) model calendar: ticks per day, days per month, months per year
TicksPerDay == 2
DaysPerMonth == 2
MonthsPerYear == 2
\* the last time stamp the date checks enumerate
MaxStamp == 11

(* Program constants (types.ts) *)
MAX_TASK_LENGTH == 500
MIN_TASK_LENGTH == 1
MAX_TASKS_PER_LIST == 100

ListTypes == {"daily", "weekly"}
Themes == {"light", "dark", "system"}

----------------------------------------------------------------------------
(* Strings *)

Space == " "

Rep(c, n) == [i \in 1..n |-> c]

RECURSIVE TrimLeft(_)
TrimLeft(s) == IF s # <<>> /\ Head(s) = Space THEN TrimLeft(Tail(s)) ELSE s

RECURSIVE TrimRight(_)
TrimRight(s) ==
    IF s # <<>> /\ s[Len(s)] = Space THEN TrimRight(SubSeq(s, 1, Len(s) - 1)) ELSE s

\* String.prototype.trim
Trim(s) == TrimRight(TrimLeft(s))

----------------------------------------------------------------------------
(* Local calendar dates: new Date(t).getFullYear(), getMonth(), getDate() *)

TicksPerMonth == TicksPerDay * DaysPerMonth
TicksPerYear == TicksPerMonth * MonthsPerYear

getFullYear(t) == t \div TicksPerYear
getMonth(t) == (t % TicksPerYear) \div TicksPerMonth
getDate(t) == ((t % TicksPerMonth) \div TicksPerDay) + 1

\* the number of the local calendar day a time stamp falls on
LocalDay(t) == t \div TicksPerDay

shouldResetNoMonth(lastReset, current) ==
    \/ getDate(lastReset) # getDate(current)
    \/ getFullYear(lastReset) # getFullYear(current)

\* ResetManager.shouldReset, as a function of state.lastReset and new Date()
shouldReset(lastReset, current) ==
    \/ getDate(lastReset) # getDate(current)
    \/ getMonth(lastReset) # getMonth(current)
    \/ getFullYear(lastReset) # getFullYear(current)

----------------------------------------------------------------------------
(* Task lists *)

TaskFields == {"id", "text", "checked", "createdAt", "order", "isRecurring"}

Indices(tasks) == 1..Len(tasks)

\* the canonical object identities: the index of the first slot with the same object
Canon(tasks) ==
    [i \in Indices(tasks) |->
        [tasks[i] EXCEPT !.obj =
            CHOOSE j \in Indices(tasks) :
                /\ tasks[j].obj = tasks[i].obj
                /\ \A k \in 1..(j - 1) : tasks[k].obj # tasks[i].obj]]

\* every slot a separate object (an array of newly created objects)
Fresh(tasks) == [i \in Indices(tasks) |-> [tasks[i] EXCEPT !.obj = i]]

Ids(tasks) == [i \in Indices(tasks) |-> tasks[i].id]

\* the ITask fields of a slot, without the object identity
Value(t) == [f \in TaskFields |-> t[f]]
Values(tasks) == [i \in Indices(tasks) |-> Value(tasks[i])]

findIndexOrLast(tasks, taskId) ==
    IF \E i \in Indices(tasks) : tasks[i].id = taskId
    THEN CHOOSE i \in Indices(tasks) :
            /\ tasks[i].id = taskId
            /\ \A k \in 1..(i - 1) : tasks[k].id # taskId
    ELSE Len(tasks)

\* Array.prototype.findIndex(task => task.id === taskId); 0 stands for -1
findIndex(tasks, taskId) ==
    IF \E i \in Indices(tasks) : tasks[i].id = taskId
    THEN CHOOSE i \in Indices(tasks) :
            /\ tasks[i].id = taskId
            /\ \A k \in 1..(i - 1) : tasks[k].id # taskId
    ELSE 0

\* { ...task, ...updates } : a new object
Spread(task, updates) ==
    [f \in DOMAIN task |->
        IF f = "obj" THEN 0
        ELSE IF f \in DOMAIN updates THEN updates[f] ELSE task[f]]

\* task.f = v through the reference in slot i: every slot of that object changes
AssignField(tasks, i, f, v) ==
    [j \in Indices(tasks) |->
        IF tasks[j].obj = tasks[i].obj THEN [tasks[j] EXCEPT ![f] = v] ELSE tasks[j]]

RECURSIVE AssignOrderFrom(_, _)
AssignOrderFrom(tasks, i) ==
    IF i > Len(tasks) THEN tasks
    ELSE AssignOrderFrom(AssignField(tasks, i, "order", i - 1), i + 1)

\* tasks.forEach((task, index) => { task.order = index; })
AssignOrder(tasks) == AssignOrderFrom(tasks, 1)

RECURSIVE InsertByOrder(_, _)
InsertByOrder(sorted, t) ==
    IF sorted = <<>> \/ sorted[Len(sorted)].order <= t.order
    THEN Append(sorted, t)
    ELSE Append(InsertByOrder(SubSeq(sorted, 1, Len(sorted) - 1), t), sorted[Len(sorted)])

RECURSIVE SortByOrder(_)
\* Array.prototype.sort((a, b) => a.order - b.order): a stable sort
SortByOrder(tasks) ==
    IF tasks = <<>> THEN <<>>
    ELSE InsertByOrder(SortByOrder(SubSeq(tasks, 1, Len(tasks) - 1)), tasks[Len(tasks)])

IsUnchecked(t) == ~t.checked
IsChecked(t) == t.checked

validateTaskTextNoMinimum(text) ==
    Len(text) <= MAX_TASK_LENGTH

\* TaskOperations.validateTaskText
validateTaskText(text) ==
    Len(text) >= MIN_TASK_LENGTH /\ Len(text) <= MAX_TASK_LENGTH

NewTask(id, text, t) ==
    [id |-> id, text |-> text, checked |-> FALSE, createdAt |-> t,
     order |-> 0, isRecurring |-> FALSE, obj |-> 0]

addTaskErrorOffByOne(tasks, text) ==
    IF ~validateTaskText(Trim(text)) THEN "InvalidTask"
    ELSE IF Len(tasks) > MAX_TASKS_PER_LIST THEN "ListFull"
    ELSE "none"

\* TaskOperations.addTask: the error thrown, or "none"
addTaskError(tasks, text) ==
    IF ~validateTaskText(Trim(text)) THEN "InvalidTask"
    ELSE IF Len(tasks) >= MAX_TASKS_PER_LIST THEN "ListFull"
    ELSE "none"

addTaskListNoShift(tasks, text, id, t) ==
    Fresh(<<NewTask(id, Trim(text), t)>> \o tasks)

\* TaskOperations.addTask: updatedTasks
addTaskList(tasks, text, id, t) ==
    Fresh(<<NewTask(id, Trim(text), t)>>
            \o [i \in Indices(tasks) |-> [tasks[i] EXCEPT !.order = @ + 1]])

\* TaskOperations.updateTask: the error thrown, or "none"
updateTaskError(tasks, taskId, updates) ==
    IF findIndex(tasks, taskId) = 0 THEN "TaskNotFound"
    ELSE IF /\ "text" \in DOMAIN updates
            /\ updates.text # <<>>
            /\ ~validateTaskText(updates.text) THEN "InvalidTask"
    ELSE "none"

\* TaskOperations.updateTask: tasks after tasks[taskIndex] = { ...tasks[taskIndex], ...updates }
updateTaskList(tasks, taskId, updates) ==
    Canon([tasks EXCEPT ![findIndex(tasks, taskId)] = Spread(@, updates)])

deleteTaskListRenumbered(tasks, taskId) ==
    Canon(AssignOrder(SelectSeq(tasks, LAMBDA t : t.id # taskId)))

\* TaskOperations.deleteTask: filteredTasks
deleteTaskList(tasks, taskId) ==
    Canon(SelectSeq(tasks, LAMBDA t : t.id # taskId))

reorderTasksByCompletionCheckedFirst(tasks) ==
    Canon(AssignOrder(SortByOrder(SelectSeq(tasks, IsChecked))
                        \o SortByOrder(SelectSeq(tasks, IsUnchecked))))

\* TaskOperations.reorderTasksByCompletion
reorderTasksByCompletion(tasks) ==
    Canon(AssignOrder(SortByOrder(SelectSeq(tasks, IsUnchecked))
                        \o SortByOrder(SelectSeq(tasks, IsChecked))))

\* TaskOperations.toggleTask: the error thrown, or "none"
toggleTaskError(tasks, taskId) ==
    IF findIndex(tasks, taskId) = 0 THEN "TaskNotFound" ELSE "none"

toggleTaskListChecks(tasks, taskId) ==
    reorderTasksByCompletion(AssignField(tasks, findIndex(tasks, taskId), "checked", TRUE))

\* TaskOperations.toggleTask: reorderedTasks
toggleTaskList(tasks, taskId) ==
    LET i == findIndex(tasks, taskId)
    IN  reorderTasksByCompletion(AssignField(tasks, i, "checked", ~tasks[i].checked))

RECURSIVE FindAll(_, _)
\* taskIds.map(id => tasks.find(task => task.id === id)).filter(task => task !== undefined)
FindAll(tasks, taskIds) ==
    IF taskIds = <<>> THEN <<>>
    ELSE LET i == findIndex(tasks, Head(taskIds))
         IN  (IF i = 0 THEN <<>> ELSE <<tasks[i]>>) \o FindAll(tasks, Tail(taskIds))

reorderTasksListNotRenumbered(tasks, taskIds) ==
    Canon(FindAll(tasks, taskIds))

\* TaskOperations.reorderTasks: reorderedTasks
reorderTasksList(tasks, taskIds) ==
    Canon(AssignOrder(FindAll(tasks, taskIds)))

RECURSIVE processTasks(_, _, _)
\* ResetManager.resetDailyList: the dailyTasks.forEach loop from slot i on
processTasks(dailyTasks, i, processedTasks) ==
    IF i > Len(dailyTasks) THEN processedTasks
    ELSE LET task == dailyTasks[i]
         IN  IF task.isRecurring
             THEN processTasks(dailyTasks, i + 1,
                    <<[task EXCEPT !.checked = FALSE, !.order = 0, !.obj = -i]>>
                        \o processedTasks)
             ELSE IF ~task.checked
             THEN processTasks(dailyTasks, i + 1, Append(processedTasks, task))
             ELSE processTasks(dailyTasks, i + 1, processedTasks)

resetDailyListTasksNoRenumber(dailyTasks) ==
    Canon(processTasks(dailyTasks, 1, <<>>))

\* ResetManager.resetDailyList: processedTasks after the renumbering
resetDailyListTasks(dailyTasks) ==
    Canon(AssignOrder(processTasks(dailyTasks, 1, <<>>)))

\* What a reference to the array tasks, taken before a call, shows after it, raw being
\* the array the call built: the slots are the same objects, and an object the call
\* assigned to shows the assignment (objects the call created have obj <= 0)
Seen(tasks, raw) ==
    [j \in Indices(tasks) |->
        IF \E k \in Indices(raw) : raw[k].obj = tasks[j].obj
        THEN raw[CHOOSE k \in Indices(raw) : raw[k].obj = tasks[j].obj]
        ELSE tasks[j]]

\* the list of getState() as seen after addTask: the call wrote to new objects only
seenAfterAddTask(tasks) == tasks

\* ... after updateTask: tasks[taskIndex] = { ... } assigns to a slot of that array
seenAfterUpdateTask(tasks, taskId, updates) ==
    [tasks EXCEPT ![findIndex(tasks, taskId)] = Spread(@, updates)]

\* ... after deleteTask: filter builds a new array and assigns to no task
seenAfterDeleteTask(tasks) == tasks

\* ... after toggleTask: task.checked = !task.checked, and task.order = index in
\* reorderTasksByCompletion, assign to the objects of that array
seenAfterToggleTask(tasks, taskId) ==
    LET i == findIndex(tasks, taskId)
        toggled == AssignField(tasks, i, "checked", ~tasks[i].checked)
    IN  Seen(tasks, AssignOrder(SortByOrder(SelectSeq(toggled, IsUnchecked))
                                    \o SortByOrder(SelectSeq(toggled, IsChecked))))

\* ... after reorderTasks: task.order = index assigns to the objects of that array
seenAfterReorderTasks(tasks, taskIds) ==
    Seen(tasks, AssignOrder(FindAll(tasks, taskIds)))

\* ... after resetDailyList: task.order = index assigns to the kept objects that are
\* not recurring (the recurring ones are copies)
seenAfterResetDailyList(dailyTasks) ==
    Seen(dailyTasks, AssignOrder(processTasks(dailyTasks, 1, <<>>)))

----------------------------------------------------------------------------
(* The application state, the store and the state container *)

\* types.ts DEFAULT_APP_STATE, lastReset being Date.now() at module evaluation
DEFAULT_APP_STATE(t) ==
    [version |-> 1, lists |-> [daily |-> <<>>, weekly |-> <<>>],
     theme |-> "system", lastReset |-> t]

\* { ...a, ...b } on plain records
Merge(a, b) ==
    [f \in (DOMAIN a) \cup (DOMAIN b) |-> IF f \in DOMAIN b THEN b[f] ELSE a[f]]

\* what browser.storage.local.set keeps of a state: a copy, every task its own object
Serialize(s) ==
    [s EXCEPT !.lists = [l \in ListTypes |-> Fresh(s.lists[l])]]

validateStateListsOnly(v) == {"lists"} \subseteq DOMAIN v

\* StorageManager.validateState
validateState(v) == {"lists", "theme", "lastReset"} \subseteq DOMAIN v

loadDefaultsWin(getOk, stored, default) ==
    IF getOk /\ stored # <<>> /\ validateState(stored[1])
    THEN Merge(Merge(stored[1], default), [version |-> 1])
    ELSE default

\* StorageManager.load; getOk is whether browser.storage.local.get succeeded
load(getOk, stored, default) ==
    IF getOk /\ stored # <<>> /\ validateState(stored[1])
    THEN Merge(Merge(default, stored[1]), [version |-> 1])
    ELSE default

\* what renderTask captures of a task: the handlers use task.id, task.text, task.isRecurring
Rendered(tasks) ==
    [i \in Indices(tasks) |->
        [id |-> tasks[i].id, text |-> tasks[i].text, isRecurring |-> tasks[i].isRecurring]]

\* UIManager.updateUI: renderList of both lists
updateUI(s) == [l \in ListTypes |-> Rendered(s.lists[l])]

EmptyDom == [l \in ListTypes |-> <<>>]

\* ThemeManager.getSystemTheme
getSystemTheme(dark) == IF dark THEN "dark" ELSE "light"

\* ThemeManager.applyTheme: the value it sets data-theme to
applyTheme(s, dark) == IF s.theme = "system" THEN getSystemTheme(dark) ELSE s.theme

clearTimeoutNothing(timers) == timers

\* StorageManager.save: if (this.debounceTimer) clearTimeout(this.debounceTimer);
\* cancelling a callback that has already run does nothing
clearTimeout(timers) ==
    IF timers # <<>> THEN SubSeq(timers, 1, Len(timers) - 1) ELSE timers

\* StorageManager.save: the callback it schedules holds the state it was given and the
\* promise its caller (waiter) awaits; burst is history: the calls of save since the
\* last callback ran
save(timers, s, waiter) ==
    Append(clearTimeout(timers),
           [state |-> s, waiter |-> waiter,
            burst |-> IF timers # <<>> THEN timers[Len(timers)].burst + 1 ELSE 1])

\* TabDoApp.setState: merge, then StorageManager.save; the caller resumes as waiter
\* when the write is done
setState(updates, waiter) ==
    /\ state' = Merge(state, updates)
    /\ debounceTimer' = save(debounceTimer, Merge(state, updates), waiter)

WithListAlone(listType, tasks) ==
    [lists |-> [l \in ListTypes |-> IF l = listType THEN tasks ELSE <<>>]]

\* { lists: { ...state.lists, [listType]: tasks } }
WithList(listType, tasks) ==
    [lists |-> [state.lists EXCEPT ![listType] = tasks]]

PageOpen == pc # "closed"

----------------------------------------------------------------------------
(* TaskOperations: each method up to and including its call of setState *)

\* TaskOperations.generateId: `task-${Date.now()}-${random}`, a new id at every call
generateId == nextId + 1

\* TaskOperations.addTask
addTask(listType, text) ==
    LET tasks == state.lists[listType]
        err == addTaskError(tasks, text)
    IN  /\ left > 0
        /\ left' = left - 1
        /\ ev' = [op |-> "addTask", list |-> listType, text |-> text, result |-> err]
        /\ IF err # "none"
           THEN UNCHANGED <<state, debounceTimer, nextId>>
           ELSE /\ nextId' = nextId + 1
                /\ setState(WithList(listType, addTaskList(tasks, text, generateId, now)), "op")

\* TaskOperations.updateTask
updateTask(listType, taskId, updates) ==
    LET tasks == state.lists[listType]
        err == updateTaskError(tasks, taskId, updates)
    IN  /\ left > 0
        /\ left' = left - 1
        /\ ev' = [op |-> "updateTask", list |-> listType, id |-> taskId,
                  updates |-> updates, result |-> err]
        /\ UNCHANGED nextId
        /\ IF err # "none"
           THEN UNCHANGED <<state, debounceTimer>>
           ELSE setState(WithList(listType, updateTaskList(tasks, taskId, updates)), "op")

\* TaskOperations.deleteTask
deleteTask(listType, taskId) ==
    /\ left > 0
    /\ left' = left - 1
    /\ ev' = [op |-> "deleteTask", list |-> listType, id |-> taskId, result |-> "none"]
    /\ UNCHANGED nextId
    /\ setState(WithList(listType, deleteTaskList(state.lists[listType], taskId)), "op")

\* the checked flag of every task of a list
CheckedFlags(tasks) == {<<tasks[i].id, tasks[i].checked>> : i \in Indices(tasks)}

\* TaskOperations.toggleTask
toggleTask(listType, taskId) ==
    LET tasks == state.lists[listType]
        err == toggleTaskError(tasks, taskId)
    IN  /\ left > 0
        /\ left' = left - 1
        \* history: before is the checked flag of every task before this call; first is
        \* <<the flags before the previous call>> when that call toggled the same task
        /\ ev' = [op |-> "toggleTask", list |-> listType, id |-> taskId, result |-> err,
                  before |-> CheckedFlags(tasks),
                  first |-> IF /\ ev.op = "toggleTask" /\ ev.result = "none"
                               /\ ev.list = listType /\ ev.id = taskId
                            THEN <<ev.before>> ELSE <<>>]
        /\ UNCHANGED nextId
        /\ IF err # "none"
           THEN UNCHANGED <<state, debounceTimer>>
           ELSE setState(WithList(listType, toggleTaskList(tasks, taskId)), "op")

\* TaskOperations.reorderTasks
reorderTasks(listType, taskIds) ==
    /\ left > 0
    /\ left' = left - 1
    /\ ev' = [op |-> "reorderTasks", list |-> listType, ids |-> taskIds, result |-> "none"]
    /\ UNCHANGED nextId
    /\ setState(WithList(listType, reorderTasksList(state.lists[listType], taskIds)), "op")

----------------------------------------------------------------------------
(* The page: TabDoApp.init, the debounced write, the user's events *)

\* the page is opened: the modules are evaluated and new TabDoApp() is built
Start ==
    /\ pc = "closed"
    /\ pc' = "load"
    /\ loadedAt' = now
    /\ state' = DEFAULT_APP_STATE(now)
    /\ dom' = EmptyDom
    /\ ev' = [op |-> "start"]
    /\ UNCHANGED <<store, debounceTimer, now, nextId, left, dataTheme, prefersDark, timeUpdateInterval, resets>>

\* TabDoApp.init: this.state = await this.storage.load()
Load(getOk) ==
    /\ pc = "load"
    /\ pc' = "check"
    /\ state' = load(getOk, store, DEFAULT_APP_STATE(loadedAt))
    /\ ev' = [op |-> "load", result |-> getOk]
    /\ UNCHANGED <<store, debounceTimer, dom, now, nextId, left, loadedAt,
                   dataTheme, prefersDark, timeUpdateInterval, resets>>

\* the history of resets after one more resetDailyList at time t
Counted(r, t) ==
    IF r.day = LocalDay(t)
    THEN [r EXCEPT !.count = IF @ < 2 THEN @ + 1 ELSE @]
    ELSE [day |-> LocalDay(t), count |-> 1]

\* ResetManager.checkAndPerformReset up to its first await: shouldReset, and
\* resetDailyList up to its setState
checkAndPerformReset ==
    /\ pc = "check"
    /\ ev' = [op |-> "shouldReset", lastReset |-> state.lastReset, current |-> now,
              result |-> shouldReset(state.lastReset, now)]
    /\ IF shouldReset(state.lastReset, now)
       THEN /\ setState(WithList("daily", resetDailyListTasks(state.lists.daily)), "reset1")
            /\ pc' = "reset1"
            /\ resets' = Counted(resets, now)
            /\ UNCHANGED dataTheme
       ELSE \* init goes on: this.themeManager.applyTheme()
            /\ pc' = "theme"
            /\ dataTheme' = applyTheme(state, prefersDark)
            /\ UNCHANGED <<state, debounceTimer, resets>>
    /\ UNCHANGED <<store, dom, now, nextId, left, loadedAt, prefersDark, timeUpdateInterval>>

\* TabDoApp.init: the requestAnimationFrame callback
initDeferred ==
    /\ pc = "theme"
    /\ pc' = "running"
    /\ dom' = updateUI(state)
    /\ timeUpdateInterval' = "set"
    /\ ev' = [op |-> "initDeferred"]
    /\ UNCHANGED <<state, store, debounceTimer, now, nextId, left, loadedAt,
                   dataTheme, prefersDark, resets>>

\* StorageManager.save: the setTimeout callback, and what resumes when the promise settles;
\* setOk is whether browser.storage.local.set succeeded
timerFire(setOk) ==
    /\ debounceTimer # <<>>
    /\ LET pending == Head(debounceTimer)
           rest == Tail(debounceTimer)
       IN  \* settled: how the promise of save, and so of setState, ends;
           \* shown: whether the failure is rendered for the user (the catch block
           \* logs to the console and rejects, and no caller catches the rejection)
           /\ ev' = [op |-> "timerFire", result |-> setOk, waiter |-> pending.waiter,
                     burst |-> pending.burst,
                     settled |-> IF setOk THEN "resolved" ELSE "rejected",
                     shown |-> FALSE]
           /\ store' = IF setOk THEN <<Serialize(pending.state)>> ELSE store
           /\ IF ~setOk
              THEN \* reject: init's catch block, or an unhandled rejection of the handler
                   /\ pc' = IF pending.waiter = "op" THEN pc ELSE "failed"
                   /\ debounceTimer' = rest
                   /\ UNCHANGED <<state, dom, dataTheme>>
              ELSE IF pending.waiter = "reset1"
              THEN \* checkAndPerformReset: await this.app.setState({ lastReset: Date.now() })
                   /\ dom' = updateUI(state)
                   /\ state' = Merge(state, [lastReset |-> now])
                   /\ debounceTimer' = save(rest, Merge(state, [lastReset |-> now]), "reset2")
                   /\ pc' = "reset2"
                   /\ UNCHANGED dataTheme
              ELSE /\ dom' = updateUI(state)
                   /\ debounceTimer' = rest
                   /\ pc' = IF pending.waiter = "reset2" THEN "theme" ELSE pc
                   \* after the reset init goes on: this.themeManager.applyTheme()
                   /\ dataTheme' = IF pending.waiter = "reset2"
                                   THEN applyTheme(state, prefersDark) ELSE dataTheme
                   /\ UNCHANGED state
    /\ UNCHANGED <<now, nextId, left, loadedAt, prefersDark, timeUpdateInterval, resets>>

\* the tab is closed: the page, its memory and its timers are gone
Close ==
    /\ PageOpen
    /\ pc' = "closed"
    /\ state' = DEFAULT_APP_STATE(0)
    /\ debounceTimer' = <<>>
    /\ dom' = EmptyDom
    /\ loadedAt' = 0
    /\ dataTheme' = "none"
    /\ timeUpdateInterval' = "null"
    /\ ev' = [op |-> "close"]
    /\ UNCHANGED <<store, now, nextId, left, prefersDark, resets>>

TickResetsAtMidnight ==
    /\ now < MaxTime
    /\ now' = now + 1
    /\ ev' = [op |-> "tick"]
    /\ IF pc = "running" /\ shouldReset(state.lastReset, now + 1)
       THEN /\ state' = Merge(Merge(state, WithList("daily",
                                resetDailyListTasks(state.lists.daily))),
                             [lastReset |-> now + 1])
            /\ resets' = Counted(resets, now + 1)
       ELSE UNCHANGED <<state, resets>>
    /\ UNCHANGED <<store, debounceTimer, pc, dom, nextId, left, loadedAt,
                   dataTheme, prefersDark, timeUpdateInterval>>

\* the clock advances (the interval of ClockManager only redraws the clock)
Tick ==
    /\ now < MaxTime
    /\ now' = now + 1
    /\ ev' = [op |-> "tick"]
    /\ UNCHANGED <<state, store, debounceTimer, pc, dom, nextId, left, loadedAt,
                   dataTheme, prefersDark, timeUpdateInterval, resets>>

\* what the user can type into an input
UiTyped == {<<Space>>, <<Space, "a">>, Rep("a", MAX_TASK_LENGTH + 1)}
UiEdited == {<<"b", Space>>, Rep("b", MAX_TASK_LENGTH + 1)}

\* setupEventListeners: Enter or the add button
UiAdd(listType, typed) ==
    /\ pc = "running"
    /\ Trim(typed) # <<>>
    /\ addTask(listType, Trim(typed))
    /\ UNCHANGED <<store, pc, dom, now, loadedAt, dataTheme, prefersDark, timeUpdateInterval, resets>>

\* setupTaskEventListeners: the checkbox of the k-th rendered task
UiToggle(listType, k) ==
    /\ PageOpen
    /\ k \in Indices(dom[listType])
    /\ toggleTask(listType, dom[listType][k].id)
    /\ UNCHANGED <<store, pc, dom, now, loadedAt, dataTheme, prefersDark, timeUpdateInterval, resets>>

\* setupTaskEventListeners: the recurring button of the k-th rendered task
UiRecurring(listType, k) ==
    /\ PageOpen
    /\ k \in Indices(dom[listType])
    /\ updateTask(listType, dom[listType][k].id,
                  [isRecurring |-> ~dom[listType][k].isRecurring])
    /\ UNCHANGED <<store, pc, dom, now, loadedAt, dataTheme, prefersDark, timeUpdateInterval, resets>>

\* enableTaskEdit saveEdit on the k-th rendered task
UiEdit(listType, k, typed) ==
    /\ PageOpen
    /\ k \in Indices(dom[listType])
    /\ Trim(typed) # <<>>
    /\ Trim(typed) # dom[listType][k].text
    /\ updateTask(listType, dom[listType][k].id, [text |-> Trim(typed)])
    /\ UNCHANGED <<store, pc, dom, now, loadedAt, dataTheme, prefersDark, timeUpdateInterval, resets>>

\* setupTaskEventListeners: the delete button of the k-th rendered task
UiDelete(listType, k) ==
    /\ PageOpen
    /\ k \in Indices(dom[listType])
    /\ deleteTask(listType, dom[listType][k].id)
    /\ UNCHANGED <<store, pc, dom, now, loadedAt, dataTheme, prefersDark, timeUpdateInterval, resets>>

\* the sequence with its i-th element moved to place j
Moved(seq, i, j) ==
    LET rest == [k \in 1..(Len(seq) - 1) |-> IF k < i THEN seq[k] ELSE seq[k + 1]]
    IN  [k \in 1..Len(seq) |->
            IF k < j THEN rest[k] ELSE IF k = j THEN seq[i] ELSE rest[k - 1]]

\* setupDragAndDrop onEnd: the i-th rendered task was dropped at place j
UiDrag(listType, i, j) ==
    /\ pc = "running"
    /\ i \in Indices(dom[listType])
    /\ j \in Indices(dom[listType])
    /\ i # j
    /\ dom' = [dom EXCEPT ![listType] = Moved(@, i, j)]
    /\ reorderTasks(listType, Ids(Moved(dom[listType], i, j)))
    /\ UNCHANGED <<store, pc, now, loadedAt, dataTheme, prefersDark, timeUpdateInterval, resets>>

\* the clear-data button, confirmed in the dialog; clearOk is whether
\* browser.storage.local.clear succeeded
UiClear(clearOk) ==
    /\ pc = "running"
    /\ left > 0
    /\ left' = left - 1
    /\ ev' = [op |-> "clearAllData", result |-> clearOk]
    /\ IF clearOk
       THEN /\ store' = <<>>
            /\ state' = DEFAULT_APP_STATE(loadedAt)
            /\ dom' = updateUI(DEFAULT_APP_STATE(loadedAt))
       ELSE UNCHANGED <<store, state, dom>>
    \* the handler does not call applyTheme
    /\ UNCHANGED <<debounceTimer, pc, now, nextId, loadedAt, dataTheme, prefersDark, timeUpdateInterval, resets>>

\* the theme select of the settings dialog: ThemeManager.setTheme
UiTheme(theme) ==
    /\ pc = "running"
    /\ left > 0
    /\ left' = left - 1
    /\ ev' = [op |-> "setTheme", theme |-> theme, result |-> "none"]
    /\ setState([theme |-> theme], "op")
    /\ dataTheme' = applyTheme(Merge(state, [theme |-> theme]), prefersDark)
    /\ UNCHANGED <<store, pc, dom, now, nextId, loadedAt, prefersDark, timeUpdateInterval, resets>>

\* the operating system switches between light and dark: the change listener of
\* ThemeManager's media query, installed by the constructor
OsChange ==
    /\ left > 0
    /\ left' = left - 1
    /\ prefersDark' = ~prefersDark
    /\ ev' = [op |-> "osChange"]
    /\ dataTheme' = IF PageOpen /\ state.theme = "system"
                    THEN applyTheme(state, ~prefersDark) ELSE dataTheme
    /\ UNCHANGED <<state, store, debounceTimer, pc, dom, now, nextId, loadedAt,
                   timeUpdateInterval, resets>>

\* TabDoApp.shutdown: this.clockManager.shutdown() clears the clock's interval; the
\* timer of StorageManager.save is not touched
shutdown ==
    /\ PageOpen
    /\ timeUpdateInterval' = "null"
    /\ ev' = [op |-> "shutdown"]
    /\ UNCHANGED <<state, store, debounceTimer, pc, dom, now, nextId, left, loadedAt,
                   dataTheme, prefersDark, resets>>

Init ==
    /\ state = DEFAULT_APP_STATE(0)
    /\ store = <<>>
    /\ debounceTimer = <<>>
    /\ pc = "closed"
    /\ dom = EmptyDom
    /\ now = 0
    /\ nextId = 0
    /\ left = MaxEvents
    /\ loadedAt = 0
    /\ dataTheme = "none"
    /\ timeUpdateInterval = "null"
    /\ prefersDark = FALSE
    /\ resets = [day |-> -1, count |-> 0]
    /\ ev = [op |-> "none"]

Next ==
    \/ Start
    \/ \E getOk \in BOOLEAN : Load(getOk)
    \/ checkAndPerformReset
    \/ initDeferred
    \/ \E setOk \in BOOLEAN : timerFire(setOk)
    \/ Close
    \/ Tick
    \/ \E l \in ListTypes, typed \in UiTyped : UiAdd(l, typed)
    \/ \E l \in ListTypes : \E k \in Indices(dom[l]) : UiToggle(l, k)
    \/ \E l \in ListTypes : \E k \in Indices(dom[l]) : UiRecurring(l, k)
    \/ \E l \in ListTypes : \E k \in Indices(dom[l]), typed \in UiEdited : UiEdit(l, k, typed)
    \/ \E l \in ListTypes : \E k \in Indices(dom[l]) : UiDelete(l, k)
    \/ \E l \in ListTypes : \E i \in Indices(dom[l]), j \in Indices(dom[l]) : UiDrag(l, i, j)
    \/ \E clearOk \in BOOLEAN : UiClear(clearOk)

\* the application from a new installation: the page's life and the user's events on
\* the lists and the clear button (the theme events are in SpecTheme and SpecSession)
Spec == Init /\ [][Next]_vars

----------------------------------------------------------------------------
(* Seeded states: what earlier sessions can have left behind.  Every list   *)
(* has distinct ids and order values that grow with the position; any       *)
(* pattern of checked and recurring flags can be produced by the handlers.  *)

\* n tasks with ids base+1..base+n, the checked ones C, the recurring ones R
SeedList(n, C, R, gap, base) ==
    [i \in 1..n |->
        [id |-> base + i, text |-> <<"a">>, checked |-> i \in C, createdAt |-> 0,
         order |-> (i - 1) * gap, isRecurring |-> i \in R, obj |-> i]]

Odd(n) == {i \in 1..n : i % 2 = 1}

\* daily lists with every pattern of flags
SeedsFull ==
    UNION {{SeedList(n, C, R, 1, 0) : C \in SUBSET (1..n), R \in SUBSET (1..n)} :
            n \in 0..MaxLen}

\* daily lists with every pattern of checked flags, with and without gaps in order
SeedsChecked ==
    UNION {{SeedList(n, C, Odd(n), g, 0) : C \in SUBSET (1..n), g \in {1, 2}} :
            n \in 0..MaxLen}

SeedsWeekly == {<<>>, SeedList(1, {1}, {1}, 1, MaxLen)}

\* the ids the seeded lists use are below SeedIds
SeedIds == MAX_TASKS_PER_LIST + MaxLen + 1

SeedState(daily, weekly) ==
    [version |-> 1, lists |-> [daily |-> daily, weekly |-> weekly],
     theme |-> "system", lastReset |-> 0]

\* a closed page over a store that an earlier session wrote
InitReset ==
    /\ \E d \in SeedsFull, w \in SeedsWeekly : store = <<SeedState(d, w)>>
    /\ state = DEFAULT_APP_STATE(0)
    /\ debounceTimer = <<>>
    /\ pc = "closed"
    /\ dom = EmptyDom
    /\ now \in 0..MaxTime
    /\ nextId = SeedIds
    /\ left = 0
    /\ loadedAt = 0
    /\ dataTheme = "none"
    /\ timeUpdateInterval = "null"
    /\ prefersDark = FALSE
    /\ resets = [day |-> -1, count |-> 0]
    /\ ev = [op |-> "none"]

NextLife ==
    \/ Start
    \/ \E getOk \in BOOLEAN : Load(getOk)
    \/ checkAndPerformReset
    \/ initDeferred
    \/ \E setOk \in BOOLEAN : timerFire(setOk)
    \/ Close
    \/ Tick

\* the page's life over a seeded store, without user events
SpecReset == InitReset /\ [][NextLife]_vars

\* a running page that shows a seeded state, the store in step with it
InitOps ==
    /\ \E d \in SeedsChecked, w \in SeedsWeekly : state = SeedState(d, w)
    /\ store = <<Serialize(state)>>
    /\ debounceTimer = <<>>
    /\ pc = "running"
    /\ dom = updateUI(state)
    /\ now = 1
    /\ nextId = SeedIds
    /\ left = MaxOps
    /\ loadedAt = 0
    /\ dataTheme = "light"
    /\ timeUpdateInterval = "set"
    /\ prefersDark = FALSE
    /\ resets = [day |-> -1, count |-> 0]
    /\ ev = [op |-> "none"]

NextOps ==
    \/ \E setOk \in BOOLEAN : timerFire(setOk)
    \/ \E l \in ListTypes, typed \in UiTyped : UiAdd(l, typed)
    \/ \E l \in ListTypes : \E k \in Indices(dom[l]) : UiToggle(l, k)
    \/ \E l \in ListTypes : \E k \in Indices(dom[l]) : UiRecurring(l, k)
    \/ \E l \in ListTypes : \E k \in Indices(dom[l]), typed \in UiEdited : UiEdit(l, k, typed)
    \/ \E l \in ListTypes : \E k \in Indices(dom[l]) : UiDelete(l, k)
    \/ \E l \in ListTypes : \E i \in Indices(dom[l]), j \in Indices(dom[l]) : UiDrag(l, i, j)

\* the user's events on a running page that shows a seeded state
SpecOps == InitOps /\ [][NextOps]_vars

----------------------------------------------------------------------------
(* ITaskOperations called with arguments of any kind *)

ApiTexts ==
    {<<>>, <<Space>>, <<"a">>, <<Space, "a", Space>>,
     Rep("a", MAX_TASK_LENGTH), <<Space>> \o Rep("a", MAX_TASK_LENGTH) \o <<Space>>,
     Rep("a", MAX_TASK_LENGTH + 1)}

\* ids of seeded tasks, and 0, the id of no task
ApiIds == 0..(MaxLen + 1)

ApiUpdates ==
    {[isRecurring |-> TRUE], [checked |-> TRUE], [order |-> 0],
     [text |-> <<"b">>], [text |-> <<>>], [text |-> Rep("b", MAX_TASK_LENGTH + 1)],
     [text |-> <<"b">>, isRecurring |-> FALSE],
     [id |-> 1], [id |-> 2], [createdAt |-> 7]}

ApiIdSeqs ==
    UNION {[1..n -> 0..2] : n \in 0..2}
        \cup {<<3, 1, 2>>, <<1, 2, 3>>, <<2, 3, 1, 1>>}

SeedsApi == {SeedList(n, {2}, {1}, 1, 0) : n \in {0, 1, MaxLen}}

\* a running page over a seeded state; the caller is any code holding ITaskOperations
InitApi ==
    /\ \E d \in SeedsApi, w \in SeedsWeekly : state = SeedState(d, w)
    /\ store = <<Serialize(state)>>
    /\ debounceTimer = <<>>
    /\ pc = "running"
    /\ dom = updateUI(state)
    /\ now = 1
    /\ nextId = SeedIds
    /\ left = MaxOps
    /\ loadedAt = 0
    /\ dataTheme = "light"
    /\ timeUpdateInterval = "set"
    /\ prefersDark = FALSE
    /\ resets = [day |-> -1, count |-> 0]
    /\ ev = [op |-> "none"]

ApiAdd(l, text) ==
    addTask(l, text) /\ UNCHANGED <<store, pc, dom, now, loadedAt, dataTheme, prefersDark, timeUpdateInterval, resets>>

ApiUpdate(l, id, updates) ==
    updateTask(l, id, updates) /\ UNCHANGED <<store, pc, dom, now, loadedAt, dataTheme, prefersDark, timeUpdateInterval, resets>>

ApiDelete(l, id) ==
    deleteTask(l, id) /\ UNCHANGED <<store, pc, dom, now, loadedAt, dataTheme, prefersDark, timeUpdateInterval, resets>>

ApiToggle(l, id) ==
    toggleTask(l, id) /\ UNCHANGED <<store, pc, dom, now, loadedAt, dataTheme, prefersDark, timeUpdateInterval, resets>>

ApiReorder(l, ids) ==
    reorderTasks(l, ids) /\ UNCHANGED <<store, pc, dom, now, loadedAt, dataTheme, prefersDark, timeUpdateInterval, resets>>

NextApi ==
    \/ \E setOk \in BOOLEAN : timerFire(setOk)
    \/ \E l \in ListTypes, text \in ApiTexts : ApiAdd(l, text)
    \/ \E l \in ListTypes, id \in ApiIds, u \in ApiUpdates : ApiUpdate(l, id, u)
    \/ \E l \in ListTypes, id \in ApiIds : ApiDelete(l, id)
    \/ \E l \in ListTypes, id \in ApiIds : ApiToggle(l, id)
    \/ \E l \in ListTypes, ids \in ApiIdSeqs : ApiReorder(l, ids)

\* the task operations called with any arguments
SpecApi == InitApi /\ [][NextApi]_vars

\* lists at and next to the capacity MAX_TASKS_PER_LIST
SeedsCap ==
    {SeedList(n, {2}, {1}, 1, 0) :
        n \in {0, MaxLen, MAX_TASKS_PER_LIST - 1, MAX_TASKS_PER_LIST}}

InitCap ==
    /\ \E d \in SeedsCap, w \in SeedsCap :
            state = SeedState(d, [i \in Indices(w) |-> [w[i] EXCEPT !.id = @ + SeedIds]])
    /\ store = <<Serialize(state)>>
    /\ debounceTimer = <<>>
    /\ pc = "running"
    /\ dom = updateUI(state)
    /\ now = 1
    /\ nextId = 2 * SeedIds
    /\ left = MaxOps
    /\ loadedAt = 0
    /\ dataTheme = "light"
    /\ timeUpdateInterval = "set"
    /\ prefersDark = FALSE
    /\ resets = [day |-> -1, count |-> 0]
    /\ ev = [op |-> "none"]

NextCap ==
    \/ \E setOk \in BOOLEAN : timerFire(setOk)
    \/ \E l \in ListTypes, text \in ApiTexts : ApiAdd(l, text)
    \/ \E l \in ListTypes, id \in ApiIds : ApiDelete(l, id)

\* addTask and deleteTask on lists of every length up to the capacity
SpecCap == InitCap /\ [][NextCap]_vars

\* the task operations, the timer callback of a scheduled write being run in the end
NextShutdown ==
    \/ NextApi
    \/ shutdown

\* the task operations, and shutdown() called at any moment
SpecShutdown == InitApi /\ [][NextShutdown]_vars

SpecApiFair == SpecApi /\ WF_vars(\E setOk \in BOOLEAN : timerFire(setOk))

\* a running page that shows a seeded state, for a session of two user events
InitSession ==
    /\ \E d \in SeedsApi, w \in SeedsWeekly : state = SeedState(d, w)
    /\ store = <<Serialize(state)>>
    /\ debounceTimer = <<>>
    /\ pc = "running"
    /\ dom = updateUI(state)
    /\ now = 1
    /\ nextId = SeedIds
    /\ left = MaxOps + 1
    /\ loadedAt = 0
    /\ dataTheme = "light"
    /\ timeUpdateInterval = "set"
    /\ prefersDark = FALSE
    /\ resets = [day |-> -1, count |-> 0]
    /\ ev = [op |-> "none"]

NextSession ==
    \/ \E setOk \in BOOLEAN : timerFire(setOk)
    \/ \E l \in ListTypes, typed \in UiTyped : UiAdd(l, typed)
    \/ \E l \in ListTypes : \E k \in Indices(dom[l]) : UiToggle(l, k)
    \/ \E l \in ListTypes : \E k \in Indices(dom[l]) : UiRecurring(l, k)
    \/ \E l \in ListTypes : \E k \in Indices(dom[l]), typed \in UiEdited : UiEdit(l, k, typed)
    \/ \E l \in ListTypes : \E k \in Indices(dom[l]) : UiDelete(l, k)
    \/ \E l \in ListTypes : \E i \in Indices(dom[l]), j \in Indices(dom[l]) : UiDrag(l, i, j)
    \/ \E clearOk \in BOOLEAN : UiClear(clearOk)
    \/ \E theme \in Themes : UiTheme(theme)
    \/ OsChange

\* two user events in a row on a running page, the debounced writes in between or not
SpecSession == InitSession /\ [][NextSession]_vars

\* a session in which a scheduled timer callback runs in the end, whatever the store answers
SpecSessionFair == SpecSession /\ WF_vars(\E setOk \in BOOLEAN : timerFire(setOk))

\* a closed page over a store that holds any theme preference, the operating system
\* being in light or dark mode
InitTheme ==
    /\ \E t \in Themes, d \in SeedsApi, w \in SeedsWeekly :
            store = <<[SeedState(d, w) EXCEPT !.theme = t]>>
    /\ state = DEFAULT_APP_STATE(0)
    /\ debounceTimer = <<>>
    /\ pc = "closed"
    /\ dom = EmptyDom
    /\ now \in 0..MaxTime
    /\ nextId = SeedIds
    /\ left = MaxOps + 1
    /\ loadedAt = 0
    /\ dataTheme = "none"
    /\ timeUpdateInterval = "null"
    /\ prefersDark \in BOOLEAN
    /\ resets = [day |-> -1, count |-> 0]
    /\ ev = [op |-> "none"]

NextTheme ==
    \/ Start
    \/ \E getOk \in BOOLEAN : Load(getOk)
    \/ checkAndPerformReset
    \/ initDeferred
    \/ \E setOk \in BOOLEAN : timerFire(setOk)
    \/ Close
    \/ \E theme \in Themes : UiTheme(theme)
    \/ OsChange
    \/ \E clearOk \in BOOLEAN : UiClear(clearOk)

\* the page's life with the events that concern the theme
SpecTheme == InitTheme /\ [][NextTheme]_vars

\* a record without the fields of a set
Without(r, fields) == [f \in (DOMAIN r) \ fields |-> r[f]]

\* what the page can find under STORAGE_KEY: nothing, a state an earlier session
\* wrote, or a value of another origin that lacks fields of a state
StoredValues ==
    {<<>>} \cup
    {<<Without([SeedState(d, <<>>) EXCEPT !.theme = t], fields)>> :
        d \in SeedsApi, t \in Themes,
        fields \in SUBSET {"lists", "theme", "lastReset", "version"}}

\* a closed page over any stored value
InitLoad ==
    /\ store \in StoredValues
    /\ state = DEFAULT_APP_STATE(0)
    /\ debounceTimer = <<>>
    /\ pc = "closed"
    /\ dom = EmptyDom
    /\ now \in 0..MaxTime
    /\ nextId = SeedIds
    /\ left = 0
    /\ loadedAt = 0
    /\ dataTheme = "none"
    /\ timeUpdateInterval = "null"
    /\ prefersDark = FALSE
    /\ resets = [day |-> -1, count |-> 0]
    /\ ev = [op |-> "none"]

\* the start of the page over any stored value
SpecLoad == InitLoad /\ [][NextLife]_vars

\* the step init is waiting for: the answer of the load, the continuation after it, the
\* timer callback of a write with the store's answer, the animation frame (at any
\* moment at most one of them is due)
InitStep ==
    \/ \E getOk \in BOOLEAN : Load(getOk)
    \/ checkAndPerformReset
    \/ \E setOk \in BOOLEAN : timerFire(setOk)
    \/ initDeferred

\* the start of the page over any stored value, when the step init is waiting for is
\* taken in the end
SpecLoadFair == SpecLoad /\ WF_vars(InitStep)

\* a page about to check for the reset, at any time after any lastReset
InitDate ==
    /\ \E t \in 0..MaxStamp :
            state = [SeedState(SeedList(MaxLen, {2}, {1}, 1, 0), <<>>) EXCEPT !.lastReset = t]
    /\ store = <<Serialize(state)>>
    /\ debounceTimer = <<>>
    /\ pc = "check"
    /\ dom = EmptyDom
    /\ now \in 0..MaxStamp
    /\ nextId = SeedIds
    /\ left = 0
    /\ loadedAt = 0
    /\ dataTheme = "none"
    /\ timeUpdateInterval = "null"
    /\ prefersDark = FALSE
    /\ resets = [day |-> -1, count |-> 0]
    /\ ev = [op |-> "none"]

NextDate ==
    \/ checkAndPerformReset
    \/ initDeferred
    \/ \E setOk \in BOOLEAN : timerFire(setOk)

\* checkAndPerformReset at every pair of time stamps
SpecDate == InitDate /\ [][NextDate]_vars

----------------------------------------------------------------------------
(* Claims *)

\* the step is a call of checkAndPerformReset that went on to resetDailyList
ResetStep == ev'.op = "shouldReset" /\ ev'.result

HasId(tasks, id) == \E i \in Indices(tasks) : tasks[i].id = id

\* the task of a list with a given id (ids being distinct)
ById(tasks, id) == tasks[CHOOSE i \in Indices(tasks) : tasks[i].id = id]

Survives(t) == t.isRecurring \/ ~t.checked

\* C1: resetDailyList keeps every recurring daily task, unchecked; keeps every
\* non-recurring unchecked task with id, text, checked and isRecurring as they were;
\* drops every non-recurring checked task; the survivors' order is 0..n-1 by position.
C1_ResetRules ==
    [][ResetStep =>
        LET pre == state.lists.daily
            post == state'.lists.daily
        IN  /\ \A i \in Indices(pre) :
                /\ pre[i].isRecurring =>
                        /\ HasId(post, pre[i].id)
                        /\ ~ById(post, pre[i].id).checked
                        /\ ById(post, pre[i].id).isRecurring
                        /\ ById(post, pre[i].id).text = pre[i].text
                /\ (~pre[i].isRecurring /\ ~pre[i].checked) =>
                        /\ HasId(post, pre[i].id)
                        /\ ById(post, pre[i].id).text = pre[i].text
                        /\ ById(post, pre[i].id).checked = pre[i].checked
                        /\ ById(post, pre[i].id).isRecurring = pre[i].isRecurring
                /\ (~pre[i].isRecurring /\ pre[i].checked) => ~HasId(post, pre[i].id)
            /\ Len(post) = Cardinality({i \in Indices(pre) : Survives(pre[i])})
            /\ \A j \in Indices(post) : post[j].order = j - 1]_vars

\* C1 witness: the reset of [X recurring checked, Y plain unchecked, Z plain checked]
\* has just run and left X unchecked and Y
C1_Witness ==
    /\ ev.op = "shouldReset" /\ ev.result
    /\ pc = "reset1"
    /\ store # <<>>
    /\ LET old == store[1].lists.daily
       IN  /\ Len(old) = 3
           /\ old[1].isRecurring /\ old[1].checked
           /\ ~old[2].isRecurring /\ ~old[2].checked
           /\ ~old[3].isRecurring /\ old[3].checked
    /\ Len(state.lists.daily) = 2
    /\ Ids(state.lists.daily) = <<1, 2>>
    /\ ~state.lists.daily[1].checked

\* C2 (as claimed): after the reset the daily list is the recurring tasks in their
\* earlier relative order, then the kept non-recurring unchecked tasks in theirs.
C2_RecurringKeepOrder ==
    [][ResetStep =>
        Ids(state'.lists.daily) =
            Ids(SelectSeq(state.lists.daily, LAMBDA t : t.isRecurring))
                \o Ids(SelectSeq(state.lists.daily,
                                 LAMBDA t : ~t.isRecurring /\ ~t.checked))]_vars

\* C3 (as claimed): whatever the starts, shutdowns and user events, resetDailyList
\* runs at most once on any local calendar day.
C3_ResetOncePerDay == resets.count <= 1

\* C4: shouldReset is true exactly when lastReset and the current time fall on
\* different local calendar days, and the call changes nothing.
C4_ShouldReset ==
    [][ev'.op = "shouldReset" =>
        /\ ev'.lastReset = state.lastReset
        /\ ev'.current = now
        /\ ev'.result = (LocalDay(state.lastReset) # LocalDay(now))
        /\ state'.lastReset = state.lastReset
        /\ ~ev'.result => UNCHANGED <<state, store, debounceTimer, dom>>]_vars

\* C4 witness: shouldReset has answered true for a lastReset on the same day of the
\* month and in the same year, one tick before the midnight that starts the current day
C4_Witness ==
    /\ ev.op = "shouldReset"
    /\ ev.result
    /\ getDate(ev.lastReset) = getDate(ev.current)
    /\ getFullYear(ev.lastReset) = getFullYear(ev.current)
    /\ pc = "reset1"

\* the step is a successful call of an operation of TaskOperations
OpStep(op) == ev'.op = op /\ ev'.result = "none"

OtherList(l) == IF l = "daily" THEN "weekly" ELSE "daily"

\* the position of the task with a given id
Pos(tasks, id) == CHOOSE i \in Indices(tasks) : tasks[i].id = id

ValidText(text) ==
    Len(Trim(text)) >= 1 /\ Len(Trim(text)) <= 500

\* C6: on a list of fewer than 100 tasks and a text whose trimmed length is 1..500,
\* addTask makes the list one longer: the new task first, with order 0, unchecked and
\* not recurring; every earlier task kept in its place after it with order one higher
\* and nothing else changed; the other list as it was.
C6_AddPrepends ==
    [][(ev'.op = "addTask"
            /\ Len(state.lists[ev'.list]) < 100 /\ ValidText(ev'.text)) =>
        LET pre == state.lists[ev'.list]
            post == state'.lists[ev'.list]
        IN  /\ ev'.result = "none"
            /\ Len(post) = Len(pre) + 1
            /\ post[1].order = 0
            /\ ~post[1].checked
            /\ ~post[1].isRecurring
            /\ ~HasId(pre, post[1].id)
            /\ \A i \in Indices(pre) :
                    Value(post[i + 1]) = [Value(pre[i]) EXCEPT !.order = @ + 1]
            /\ state'.lists[OtherList(ev'.list)] = state.lists[OtherList(ev'.list)]]_vars

\* C6 witness: a text of 500 characters between spaces has been added to a list of 99
C6_Witness ==
    /\ ev.op = "addTask" /\ ev.result = "none"
    /\ Len(ev.text) = 502
    /\ Len(state.lists[ev.list]) = 100
    /\ Len(state.lists[ev.list][1].text) = 500
    /\ state.lists[ev.list][100].order = 99

\* C7: addTask with a text whose trimmed length is 0 or more than 500 fails with
\* InvalidTask; the in-memory state is unchanged and no store write is scheduled.
C7_AddInvalid ==
    [][(ev'.op = "addTask" /\ ~ValidText(ev'.text)) =>
        /\ ev'.result = "InvalidTask"
        /\ UNCHANGED <<state, debounceTimer, store>>]_vars

\* C7 witness: addTask has refused a text of spaces only, no write pending
C7_Witness ==
    /\ ev.op = "addTask" /\ ev.result = "InvalidTask"
    /\ ev.text = <<Space>>
    /\ debounceTimer = <<>>

\* C8 (as claimed): addTask on a list that holds 100 tasks fails with ListFull and
\* leaves the list unchanged.
C8_FullListAlwaysListFull ==
    [][(ev'.op = "addTask" /\ Len(state.lists[ev'.list]) = 100) =>
        /\ ev'.result = "ListFull"
        /\ state' = state]_vars

\* C8 (amended): addTask on a list that holds 100 tasks fails, with ListFull when the
\* text passes the length rule and with InvalidTask when it does not, and leaves the
\* state unchanged; so no addTask makes a list longer than 100 tasks.
C8_FullListRejects ==
    [][ev'.op = "addTask" =>
        /\ Len(state.lists[ev'.list]) = 100 =>
                /\ ev'.result = IF ValidText(ev'.text) THEN "ListFull" ELSE "InvalidTask"
                /\ UNCHANGED <<state, debounceTimer>>
        /\ Len(state.lists[ev'.list]) <= 100 => Len(state'.lists[ev'.list]) <= 100]_vars

\* C8 witness: addTask with a valid text has failed with ListFull on a list of 100
C8_Witness ==
    /\ ev.op = "addTask" /\ ev.result = "ListFull"
    /\ ValidText(ev.text)
    /\ Len(state.lists[ev.list]) = 100

DistinctIds(tasks) ==
    \A i, j \in Indices(tasks) : i # j => tasks[i].id # tasks[j].id

\* C9 (as claimed): after any add, update, delete, toggle, reorder and reset, with any
\* arguments, the tasks of lists.daily have pairwise distinct ids, and so have the
\* tasks of lists.weekly.
C9_DistinctIds ==
    DistinctIds(state.lists.daily) /\ DistinctIds(state.lists.weekly)

\* C10 (as claimed): updateTask never changes the id or createdAt of the task it
\* targets, whatever the update payload holds.
C10_UpdateKeepsIdCreatedAt ==
    [][OpStep("updateTask") =>
        LET i == findIndex(state.lists[ev'.list], ev'.id)
        IN  /\ state'.lists[ev'.list][i].id = state.lists[ev'.list][i].id
            /\ state'.lists[ev'.list][i].createdAt
                    = state.lists[ev'.list][i].createdAt]_vars

\* C11 (as claimed): updateTask of a task of the list with a payload whose text has
\* length 0 or more than 500 characters fails with InvalidTask and leaves the list
\* unchanged.
C11_UpdateTextValidated ==
    [][(/\ ev'.op = "updateTask"
        /\ HasId(state.lists[ev'.list], ev'.id)
        /\ "text" \in DOMAIN ev'.updates
        /\ (Len(ev'.updates.text) < 1 \/ Len(ev'.updates.text) > 500)) =>
        /\ ev'.result = "InvalidTask"
        /\ state'.lists = state.lists]_vars

\* C12: toggleTask or updateTask with an id that no task of the list has fails with
\* TaskNotFound; the in-memory state is unchanged and no store write is scheduled.
C12_TaskNotFound ==
    [][(/\ ev'.op \in {"toggleTask", "updateTask"}
        /\ ~HasId(state.lists[ev'.list], ev'.id)) =>
        /\ ev'.result = "TaskNotFound"
        /\ UNCHANGED <<state, debounceTimer, store>>]_vars

\* C12 witness: updateTask with a valid text has failed with TaskNotFound on a list of
\* MaxLen tasks, no write pending
C12_Witness ==
    /\ ev.op = "updateTask" /\ ev.result = "TaskNotFound"
    /\ ev.updates = [text |-> <<"b">>]
    /\ Len(state.lists[ev.list]) = MaxLen
    /\ ~HasId(state.lists[ev.list], ev.id)
    /\ debounceTimer = <<>>

\* the number of slots before slot i that hold a task with the id
Before(tasks, id, i) == Cardinality({j \in 1..(i - 1) : tasks[j].id = id})

\* C13: deleteTask(id) ends without error; it removes the task with that id and
\* nothing else: every task with another id stays, with all its fields (order too),
\* in the same relative order; when no task has the id the list is unchanged; a
\* second deleteTask(id) changes nothing any more.
C13_DeleteExactlyOne ==
    [][ev'.op = "deleteTask" =>
        LET pre == state.lists[ev'.list]
            post == state'.lists[ev'.list]
            id == ev'.id
        IN  /\ ev'.result = "none"
            /\ ~HasId(post, id)
            /\ Len(post) = Len(pre) - Before(pre, id, Len(pre) + 1)
            /\ DistinctIds(pre) /\ HasId(pre, id) => Len(post) = Len(pre) - 1
            /\ \A i \in Indices(pre) :
                    pre[i].id # id => Value(post[i - Before(pre, id, i)]) = Value(pre[i])
            /\ Values(deleteTaskList(post, id)) = Values(post)
            /\ state'.lists[OtherList(ev'.list)] = state.lists[OtherList(ev'.list)]]_vars

\* C13 witness: the second of MaxLen seeded tasks has been deleted; the task after it
\* still has its order
C13_Witness ==
    /\ ev.op = "deleteTask" /\ ev.id = 2 /\ ev.list = "daily"
    /\ Len(state.lists.daily) = MaxLen - 1
    /\ state.lists.daily[1].id = 1
    /\ state.lists.daily[2].id = 3
    /\ state.lists.daily[2].order = 2

\* C14: for a sequence of distinct ids of tasks of the list, reorderTasks yields the
\* list of exactly those tasks in the given sequence, the order field of each being
\* its index (0, 1, 2, ...) whatever it was before; tasks whose id is not in the
\* sequence are dropped and no other field of a kept task changes.
C14_ReorderBySequence ==
    [][(/\ ev'.op = "reorderTasks"
        /\ \A i, j \in DOMAIN ev'.ids : i # j => ev'.ids[i] # ev'.ids[j]
        /\ \A k \in DOMAIN ev'.ids : HasId(state.lists[ev'.list], ev'.ids[k])) =>
        LET pre == state.lists[ev'.list]
            post == state'.lists[ev'.list]
        IN  /\ Ids(post) = ev'.ids
            /\ \A k \in Indices(post) :
                /\ post[k].order = k - 1
                /\ [Value(post[k]) EXCEPT !.order = 0]
                        = [Value(pre[findIndex(pre, ev'.ids[k])]) EXCEPT !.order = 0]
            /\ state'.lists[OtherList(ev'.list)] = state.lists[OtherList(ev'.list)]]_vars

\* C14 witness: the tasks 1, 2, 3 (order 0, 1, 2) have been reordered by <<3, 1, 2>>
C14_Witness ==
    /\ ev.op = "reorderTasks" /\ ev.ids = <<3, 1, 2>> /\ ev.list = "daily"
    /\ Ids(state.lists.daily) = <<3, 1, 2>>
    /\ state.lists.daily[1].order = 0
    /\ state.lists.daily[2].order = 1
    /\ state.lists.daily[3].order = 2
    /\ state.lists.daily[3].checked

\* C15 (as claimed): whenever the drag-end handler calls reorderTasks, the id sequence
\* it passes is a permutation of the ids of that list of the in-memory state, so the
\* call removes no task from the list.
C15_DragPassesAllIds ==
    [][ev'.op = "reorderTasks" =>
        LET pre == state.lists[ev'.list]
        IN  /\ Len(ev'.ids) = Len(pre)
            /\ {ev'.ids[k] : k \in DOMAIN ev'.ids} = {pre[i].id : i \in Indices(pre)}
            /\ Len(state'.lists[ev'.list]) = Len(pre)]_vars

\* C16: when toggleTask has toggled a task and is called again for the same task right
\* after, every task of the list has the checked flag it had before the first call.
C16_ToggleTwice ==
    (ev.op = "toggleTask" /\ ev.result = "none" /\ ev.first # <<>>) =>
        CheckedFlags(state.lists[ev.list]) = ev.first[1]

\* C16 witness: an unchecked task of a list of MaxLen tasks has been toggled twice in a
\* row, with both saves falling into one debounce window; it is unchecked again
C16_Witness ==
    /\ ev.op = "toggleTask" /\ ev.result = "none" /\ ev.first # <<>>
    /\ <<ev.id, FALSE>> \in ev.first[1]
    /\ <<ev.id, TRUE>> \in ev.before
    /\ <<ev.id, FALSE>> \in CheckedFlags(state.lists[ev.list])
    /\ Len(state.lists[ev.list]) = MaxLen
    /\ debounceTimer # <<>> /\ debounceTimer[1].burst = 2

\* C17 (as claimed): setState never fails: the promise it returns is never rejected,
\* also when the store write it scheduled fails.
C17_SetStateNeverRejects ==
    ev.op = "timerFire" => ev.settled # "rejected"

\* C18 (as claimed): a store write that fails leaves the in-memory state (and the
\* store) as it was; a store write that succeeds stores the full in-memory state of
\* that moment, every change made since the last successful write included.
C18_WriteStoresCurrentState ==
    [][ev'.op = "timerFire" =>
        /\ ~ev'.result => (state' = state /\ store' = store)
        /\ ev'.result => store' = <<Serialize(state)>>]_vars

\* the task operations that call setState when they end without error
Mutations ==
    {"addTask", "updateTask", "deleteTask", "toggleTask", "reorderTasks", "setTheme"}

\* C19 (as claimed): after a mutation, in the end either a store write that holds it
\* has succeeded or a storage error has been shown to the user.
C19_PersistedOrShown ==
    (ev.op \in Mutations /\ ev.result = "none")
        ~> (store = <<Serialize(state)>> \/ (ev.op = "timerFire" /\ ev.shown))

\* C20: at any moment at most one debounced write is pending; after a call of
\* setState the pending write is the one of that call, holding the state the call
\* produced, whatever was pending before; the callback of a pending write stores the
\* state it holds and leaves no write of that burst pending; the store is written by
\* nothing else (clearAllData empties it).
C20_OneWritePerBurst ==
    [][/\ Len(debounceTimer') <= 1
       /\ (ev'.op \in Mutations /\ ev'.result = "none") =>
            /\ Len(debounceTimer') = 1
            /\ debounceTimer'[1].state = state'
       /\ (ev'.op = "timerFire" /\ ev'.result) =>
            /\ store' = <<Serialize(Head(debounceTimer).state)>>
            /\ ev'.waiter = "op" => debounceTimer' = <<>>
       /\ store' # store => ev'.op \in {"timerFire", "clearAllData"}]_vars

\* C20 witness: two tasks were added within one debounce window and the one callback
\* that ran has stored the state that holds both
C20_Witness ==
    /\ ev.op = "timerFire" /\ ev.result /\ ev.burst = 2
    /\ nextId = SeedIds + 2
    /\ debounceTimer = <<>>
    /\ store = <<Serialize(state)>>
    /\ HasId(store[1].lists.daily, SeedIds + 1)
    /\ HasId(store[1].lists.daily, SeedIds + 2)

\* C21 (as claimed): once clearAllData has been confirmed and has cleared the store,
\* and every pending timer has fired, the in-memory state is the default state and the
\* store holds no task from before the clear: a load returns the default state.
C21_ClearLeavesNothing ==
    [][/\ (ev'.op = "clearAllData" /\ ev'.result /\ debounceTimer' = <<>>) =>
            /\ state' = DEFAULT_APP_STATE(loadedAt)
            /\ load(TRUE, store', DEFAULT_APP_STATE(loadedAt)) = DEFAULT_APP_STATE(loadedAt)
       /\ (ev.op = "clearAllData" /\ ev.result
                /\ ev'.op = "timerFire" /\ debounceTimer' = <<>>) =>
            /\ state' = DEFAULT_APP_STATE(loadedAt)
            /\ load(TRUE, store', DEFAULT_APP_STATE(loadedAt))
                    = DEFAULT_APP_STATE(loadedAt)]_vars

\* two application states are equal field for field
SameState(a, b) ==
    /\ a.version = b.version
    /\ a.theme = b.theme
    /\ a.lastReset = b.lastReset
    /\ \A l \in ListTypes : Values(a.lists[l]) = Values(b.lists[l])

\* C22: once the save of a state s has been written to the store, load returns a state
\* equal to s field for field (version, both lists with every task field, theme,
\* lastReset): a load from the store just written would, and the load of the next
\* start does.
C22_SaveLoadRoundTrip ==
    [][/\ (ev'.op = "timerFire" /\ ev'.result) =>
            /\ SameState(store'[1], Head(debounceTimer).state)
            /\ SameState(load(TRUE, store', DEFAULT_APP_STATE(now)),
                         Head(debounceTimer).state)
       /\ (ev'.op = "load" /\ ev'.result /\ store # <<>>) =>
            SameState(state', store[1])]_vars

\* C22 witness: the load of a start has returned what the store holds: the dark theme
\* preference and MaxLen tasks
C22_Witness ==
    /\ ev.op = "load" /\ ev.result
    /\ store # <<>>
    /\ state.theme = "dark"
    /\ store[1].theme = "dark"
    /\ Len(state.lists.daily) = MaxLen
    /\ SameState(state, store[1])

\* C23: when the read of the store fails, or nothing is stored, or the stored value
\* lacks one of lists, theme and lastReset, load returns the default state (both lists
\* empty, theme system, version 1) and raises no error: init goes on to the reset check.
C23_LoadFallsBack ==
    [][(/\ ev'.op = "load"
        /\ \/ ~ev'.result
           \/ store = <<>>
           \/ ~({"lists", "theme", "lastReset"} \subseteq DOMAIN store[1])) =>
        /\ state' = DEFAULT_APP_STATE(loadedAt)
        /\ state'.lists.daily = <<>> /\ state'.lists.weekly = <<>>
        /\ state'.theme = "system" /\ state'.version = 1
        /\ pc' = "check"]_vars

\* C23 witness: the read succeeded and returned a value that holds MaxLen tasks but no
\* theme; load has returned the default state
C23_Witness ==
    /\ ev.op = "load" /\ ev.result
    /\ store # <<>>
    /\ DOMAIN store[1] = {"version", "lists", "lastReset"}
    /\ Len(store[1].lists.daily) = MaxLen
    /\ state = DEFAULT_APP_STATE(loadedAt)
    /\ pc = "check"

\* C24 (as claimed): on the running page the theme applied to the document is the
\* preference of the state when that is light or dark, and the theme of the operating
\* system when it is system: after initialisation, after every setTheme, after every
\* change of the operating system's mode and after clearAllData.
C24_EffectiveTheme ==
    pc = "running" => dataTheme = applyTheme(state, prefersDark)

\* C25: the daily reset changes lists.daily only, and the step that ends check-and-reset
\* changes lastReset only: lists.weekly, theme and version are after the reset what
\* they were before it.
C25_ResetFrame ==
    [][/\ ResetStep =>
            /\ state'.lists.weekly = state.lists.weekly
            /\ state'.theme = state.theme
            /\ state'.version = state.version
            /\ state'.lastReset = state.lastReset
       /\ (ev'.op = "timerFire" /\ ev'.result /\ ev'.waiter = "reset1") =>
            state' = [state EXCEPT !.lastReset = now]
       /\ (ev'.op = "timerFire" /\ ev'.waiter = "reset2") => state' = state]_vars

\* C25 witness: the reset has removed a task from a daily list of MaxLen tasks and has
\* set lastReset, the preference being dark and the weekly list holding a task
C25_Witness ==
    /\ ev.op = "timerFire" /\ ev.waiter = "reset1" /\ ev.result
    /\ pc = "reset2"
    /\ Len(state.lists.daily) = MaxLen - 1
    /\ Len(state.lists.weekly) = 1
    /\ state.lists.weekly = store[1].lists.weekly
    /\ state.theme = "dark"
    /\ state.lastReset = now /\ now > 0

C27_RenderedInTheEnd ==
    (ev.op \in Mutations /\ ev.result = "none") ~> (dom = updateUI(state))

\* what the list of a snapshot, obtained from getState before the call that the step
\* makes, shows after the call
SnapshotAfter ==
    LET tasks == state.lists[ev'.list]
    IN  CASE ev'.op = "addTask" -> seenAfterAddTask(tasks)
          [] ev'.op = "updateTask" -> seenAfterUpdateTask(tasks, ev'.id, ev'.updates)
          [] ev'.op = "deleteTask" -> seenAfterDeleteTask(tasks)
          [] ev'.op = "toggleTask" -> seenAfterToggleTask(tasks, ev'.id)
          [] ev'.op = "reorderTasks" -> seenAfterReorderTasks(tasks, ev'.ids)

\* C28 (as claimed): a task operation or the reset modifies no task object and no list
\* array of the current state in place: the list of a snapshot obtained from getState
\* before the operation shows after it what it showed before.
C28_SnapshotUnaltered ==
    [][/\ (ev'.op \in {"addTask", "updateTask", "deleteTask", "toggleTask", "reorderTasks"}
            /\ ev'.result = "none") =>
        Values(SnapshotAfter) = Values(state.lists[ev'.list])
       /\ ResetStep =>
            Values(seenAfterResetDailyList(state.lists.daily)) = Values(state.lists.daily)]_vars

\* C29 (as claimed): shutdown() cancels the pending debounced write, and once it has
\* been called (the page runs and the clock's interval is cleared) nothing is written
\* to the store.
C29_ShutdownCancelsWrite ==
    [][/\ ev'.op = "shutdown" => debounceTimer' = <<>>
       /\ (pc = "running" /\ timeUpdateInterval = "null") => store' = store]_vars

\* the ids of the tasks of a list
IdSet(tasks) == {tasks[i].id : i \in Indices(tasks)}

\* C30 (as claimed): whatever writes are pending, a user-intent event is applied to the
\* state the preceding event produced and overwrites no effect of a completed one: an
\* event other than a delete leaves every task of the in-memory state in it, a delete
\* removes the task it names only, and a task event leaves the theme alone.
C30_NoStaleOverwrite ==
    [][(ev'.op \in Mutations /\ ev'.result = "none") =>
        /\ \A l \in ListTypes :
              IdSet(state.lists[l]) \ IdSet(state'.lists[l]) \subseteq
                    IF ev'.op = "deleteTask" /\ ev'.list = l THEN {ev'.id} ELSE {}
        /\ ev'.op # "setTheme" => state'.theme = state.theme
        /\ ev'.op = "setTheme" => state'.lists = state.lists]_vars

\* C31: in every state reached from a fresh install through the handlers of the page
\* and the daily reset, the order values of each list of the in-memory state are
\* non-negative and grow strictly with the array position, which is the position
\* renderList displays the task at.
C31_OrderFollowsPosition ==
    \A l \in ListTypes :
        LET tasks == state.lists[l]
        IN  /\ \A i \in Indices(tasks) : tasks[i].order >= 0
            /\ \A i \in Indices(tasks), j \in Indices(tasks) :
                    i < j => tasks[i].order < tasks[j].order

\* two tasks were added and one of them has been toggled, which reorders the list
C31_Witness ==
    /\ ev.op = "toggleTask"
    /\ ev.result = "none"
    /\ Len(state.lists[ev.list]) >= 2
    /\ C31_OrderFollowsPosition

\* C32 (as claimed): when timer callbacks run in the end and the store answers, every
\* call of setState settles: after the b-th call of a debounce window has scheduled its
\* write, the callback of that call runs in the end and resolves or rejects its promise,
\* also when a later call of the window has superseded the write.
C32_EverySetStateSettles ==
    \A b \in 1..(MaxOps + 1) :
        (/\ ev.op \in Mutations
         /\ ev.result = "none"
         /\ debounceTimer # <<>>
         /\ debounceTimer[Len(debounceTimer)].burst = b)
        ~> (/\ ev.op = "timerFire"
            /\ ev.burst = b
            /\ ev.settled \in {"resolved", "rejected"})

\* C33 (as claimed): once init has started, the page reaches in the end the stage where
\* the theme is applied, the lists are rendered and the listeners are installed (or the
\* tab is closed before), whether the load or the writes of the start-up reset fail or not.
C33_InitCompletes ==
    (pc = "load") ~> (\/ /\ pc = "running"
                         /\ dataTheme = applyTheme(state, prefersDark)
                         /\ dom = updateUI(state)
                      \/ pc = "closed")

====
